---- MODULE Spec2Model ----
(***************************************************************************)
(* A model of scripts/process_grid_groupby.py: the argument and dataset    *)
(* validation of _validate_args, followed by the __main__ pipeline that    *)
(* stacks the precipitation grid into points, applies the SPI function to  *)
(* every point for every requested scale, unstacks the results into one    *)
(* layer per scale, and writes the output dataset.                         *)
(*                                                                         *)
(* Inputs that the code never reads on a path (an argument the selected    *)
(* index ignores, the coordinates of a file whose variable is rejected)    *)
(* are kept at a default, so that the enumeration spends its states on     *)
(* the inputs that decide something.                                       *)
(***************************************************************************)
EXTENDS Integers, Sequences, FiniteSets, TLC

VARIABLES
    args,          \* the parsed command line (argparse.Namespace)
    pc,            \* position of the run
    err,           \* the error raised, "none" while there is none
    exit,          \* "running", "ok" (normal end) or "error" (exception re-raised)
    open,          \* dataset handles currently open
    opened,        \* the files opened so far, in order
    ds,            \* the dataset read through the handle opened last
    precip,        \* contents of the precipitation file, once read
    ref,           \* lats_precip, lons_precip, times_precip
    checked,       \* roles whose variable passed the name and dimension checks
    dataset,       \* the xarray Dataset of __main__: data variable name -> value
    da_precip,     \* the stacked precipitation array: sequence of [point, series]
    si,            \* index into args.scales of the scale being computed
    cj,            \* index into da_precip of the next point to compute
    results,       \* per-point results of the current scale, in order of computation
    applied,       \* scale index -> points the index function was applied to
    written,       \* number of times to_netcdf was called
    output         \* the data variables of the written file

vars == <<args, pc, err, exit, open, opened, ds, precip, ref, checked,
          dataset, da_precip, si, cj, results, applied, written, output>>

None == "None"

-----------------------------------------------------------------------------
(* Bounds of the enumeration *)

\* longest list of scales given with --scales
MaxScales == 2

\* longest latitude / longitude coordinate vector of the precipitation grid
MaxLen == 2

-----------------------------------------------------------------------------
(* Values *)

\* choices of --index
Indices == {"spi", "spei", "pnp", "scaled", "pet", "palmers"}

\* members of compute.Periodicity; the validation compares them with 'monthly'
Periodicity == {"monthly", "daily"}

expected_dimensions == <<"lat", "lon", "time">>

\* values given with --scales: the negative of the spec's example, zero,
\* a one-digit and a two-digit scale
ScaleValues == {-1, 0, 3, 12}

RECURSIVE IncreasingSeqs(_, _)
\* the strictly increasing sequences over S of length at most n
IncreasingSeqs(S, n) ==
    IF n = 0 THEN {<< >>}
    ELSE LET shorter == IncreasingSeqs(S, n - 1)
         IN  shorter \cup
             {Append(p[1], p[2]) :
                  p \in {q \in shorter \X S :
                             Len(q[1]) = 0 \/ q[1][Len(q[1])] < q[2]}}

\* nargs='*': None when the flag is absent (given = FALSE), otherwise a
\* possibly empty list
ScaleLists ==
    {[given |-> FALSE, list |-> << >>]} \cup
    {[given |-> TRUE, list |-> l] : l \in IncreasingSeqs(ScaleValues, MaxScales)}

\* variable names are strings; they are spelt as sequences of characters because
\* __main__ tests them with the substring operator.  NoName stands for a
\* variable name argument that was not given (None).
NoName == << >>
PrecipName == <<"p", "r", "c", "p">>
SubName    == <<"c", "p">>
OtherName  == <<"t">>

Roles == {"precip", "temp", "pet", "awc"}

VarNameOf(role) ==
    CASE role = "precip" -> PrecipName
      [] role = "temp"   -> <<"t", "a", "v", "g">>
      [] role = "pet"    -> <<"p", "e", "t">>
      [] role = "awc"    -> <<"a", "w", "c">>

\* coordinate vectors of the precipitation grid: 1..n
Vecs == {[k \in 1..n |-> k] : n \in 1..MaxLen}

\* coordinate vectors of the other files: the same, or with a different last value
AuxVecs == Vecs \cup {[k \in 1..n |-> IF k = n THEN n + 1 ELSE k] : n \in 1..MaxLen}

DefaultVec == [k \in 1..1 |-> k]

\* the time coordinate of the precipitation file
TimeVec == [k \in 1..MaxLen |-> k]

DimTuples == {<<"lat", "lon", "time">>, <<"time", "lat", "lon">>, <<"lat", "lon">>}

-----------------------------------------------------------------------------
(* Command lines *)

PathOf(role) ==
    CASE role = "precip" -> "precip.nc"
      [] role = "temp"   -> "temp.nc"
      [] role = "pet"    -> "pet.nc"
      [] role = "awc"    -> "awc.nc"

\* the file and variable-name arguments of one role; a variable name without
\* its file is never read
RoleArgs(role) ==
    {<<None, NoName>>, <<PathOf(role), NoName>>, <<PathOf(role), VarNameOf(role)>>}

\* the roles whose arguments the code reads for an index
ReadRoles(index) ==
    CASE index \in {"spi", "pnp"}     -> {"precip"}
      [] index \in {"spei", "scaled"} -> {"precip", "temp", "pet"}
      [] index = "palmers"            -> {"precip", "temp", "pet", "awc"}
      [] index = "pet"                -> {"temp"}

ArgsOf(index, periodicity, p, t, e, w, scales) ==
    [index |-> index, periodicity |-> periodicity,
     netcdf_precip |-> p[1], var_name_precip |-> p[2],
     netcdf_temp |-> t[1], var_name_temp |-> t[2],
     netcdf_pet |-> e[1], var_name_pet |-> e[2],
     netcdf_awc |-> w[1], var_name_awc |-> w[2],
     scales |-> scales]

RoleChoices(index, role) ==
    IF role \in ReadRoles(index) THEN RoleArgs(role) ELSE {<<None, NoName>>}

ScaleChoices(index) ==
    IF index \in {"spi", "spei", "scaled", "pnp"}
    THEN ScaleLists
    ELSE {[given |-> FALSE, list |-> << >>]}

ArgSets ==
    UNION {
      {ArgsOf(x, per, p, t, e, w, sc) :
          per \in Periodicity,
          p \in RoleChoices(x, "precip"), t \in RoleChoices(x, "temp"),
          e \in RoleChoices(x, "pet"), w \in RoleChoices(x, "awc"),
          sc \in ScaleChoices(x)} : x \in Indices}

-----------------------------------------------------------------------------
(* Files *)

\* a dataset as the validation sees it: its data variables with their
\* dimension names, and its coordinate variables
Dataset(variables, lat, lon, time) ==
    [variables |-> variables, lat |-> lat, lon |-> lon, time |-> time]

NoDataset == [role |-> "none", variables |-> << >>,
              lat |-> << >>, lon |-> << >>, time |-> << >>]

NoRef == [defined |-> FALSE, lat |-> << >>, lon |-> << >>, time |-> << >>]

\* data variables of the precipitation file: the precipitation variable alone,
\* or with two more variables, or the two others without it
PrecipVariables ==
    {[n \in {PrecipName} |-> d] : d \in DimTuples \ {<<"lat", "lon">>}} \cup
    {[n \in {PrecipName, SubName, OtherName} |->
         IF n = PrecipName THEN d ELSE expected_dimensions] :
         d \in DimTuples \ {<<"lat", "lon">>}} \cup
    {[n \in {SubName, OtherName} |-> expected_dimensions]}

HasVariable(d, name, dimsAllowed) ==
    name \in DOMAIN d.variables /\ d.variables[name] \in dimsAllowed

\* the precipitation files: every grid when the variable is accepted
PrecipDatasets ==
    {d \in {Dataset(v, la, lo, TimeVec) : v \in PrecipVariables,
                                          la \in Vecs, lo \in Vecs} :
        HasVariable(d, PrecipName, {expected_dimensions})
        \/ (d.lat = DefaultVec /\ d.lon = DefaultVec)}

\* the files of another role: the variable absent, or present with any of the
\* dimension tuples; every coordinate set when the variable is accepted.
\* A file whose variable has no time dimension has no time coordinate.
AuxDatasets(role, dimsAllowed) ==
    {d \in {Dataset(v, la, lo, ti) :
               v \in {<< >>} \cup {[n \in {VarNameOf(role)} |-> dm] : dm \in DimTuples},
               la \in AuxVecs, lo \in AuxVecs, ti \in AuxVecs \cup {<< >>}} :
        /\ HasVariable(d, VarNameOf(role), dimsAllowed)
           \/ (d.lat = DefaultVec /\ d.lon = DefaultVec
               /\ d.time \in {DefaultVec, << >>})
        /\ (d.time = << >>) <=>
               (VarNameOf(role) \in DOMAIN d.variables
                /\ d.variables[VarNameOf(role)] = <<"lat", "lon">>)}

-----------------------------------------------------------------------------
(* _validate_args: the checks, each returning the error it raises or "none" *)

\* lines 35-44: the precipitation arguments of every index except pet
PrecipArgsError(a) ==
    IF a.netcdf_precip = None THEN "missing_precip_file"
    ELSE IF a.var_name_precip = NoName THEN "missing_precip_var_name"
    ELSE "none"

\* lines 50-62: the precipitation variable and its dimensions
PrecipFileError(a, d) ==
    IF a.var_name_precip \notin DOMAIN d.variables THEN "invalid_precip_var"
    ELSE IF d.variables[a.var_name_precip] # expected_dimensions
         THEN "invalid_precip_dims"
    ELSE "none"

\* PetOnlyError without the periodicity check of lines 77-82
PetOnlyError_AnyPeriodicity(a) ==
    IF a.netcdf_temp = None THEN "missing_temp_file" ELSE "none"

\* lines 72-82: the arguments of the pet index
PetOnlyError(a) ==
    IF a.netcdf_temp = None THEN "missing_temp_file"
    ELSE IF a.periodicity # "monthly" THEN "unsupported_periodicity"
    ELSE "none"

\* AuxDispatch without the elif of lines 130-135: a temperature file is
\* validated even when a PET file is given too
AuxDispatch_TempWins(a) ==
    IF a.index \notin {"spei", "scaled", "palmers"} THEN "skip"
    ELSE IF a.netcdf_temp = None
         THEN IF a.netcdf_pet = None THEN "missing_temp_and_pet" ELSE "pet"
    ELSE "temp"

\* lines 85-92 and 130-137: which of the temperature and PET files is validated.
\* "skip" when the index needs neither.
AuxDispatch(a) ==
    IF a.index \notin {"spei", "scaled", "palmers"} THEN "skip"
    ELSE IF a.netcdf_temp = None
         THEN IF a.netcdf_pet = None THEN "missing_temp_and_pet" ELSE "pet"
    ELSE IF a.netcdf_pet # None THEN "conflicting_temp_and_pet"
    ELSE "temp"

\* array_equal comparing the shapes only
array_equal_ShapeOnly(x, y) == Len(x) = Len(y)

\* numpy.array_equal on two 1-D arrays: same shape, then element by element
RECURSIVE ElementsEqual(_, _, _)
ElementsEqual(x, y, k) ==
    IF k > Len(x) THEN TRUE
    ELSE IF x[k] # y[k] THEN FALSE
    ELSE ElementsEqual(x, y, k + 1)

array_equal(x, y) ==
    IF Len(x) # Len(y) THEN FALSE ELSE ElementsEqual(x, y, 1)

\* lines 98-128: the PET file against the precipitation coordinates
PetFileError(a, d, r) ==
    IF a.var_name_pet = NoName THEN "missing_pet_var_name"
    ELSE IF a.var_name_pet \notin DOMAIN d.variables THEN "invalid_pet_var"
    ELSE IF d.variables[a.var_name_pet] # expected_dimensions THEN "invalid_pet_dims"
    ELSE IF ~array_equal(r.lat, d.lat) THEN "pet_lat_mismatch"
    ELSE IF ~array_equal(r.lon, d.lon) THEN "pet_lon_mismatch"
    ELSE IF ~array_equal(r.time, d.time) THEN "pet_time_mismatch"
    ELSE "none"

\* lines 143-173: the temperature file against the precipitation coordinates
TempFileError(a, d, r) ==
    IF a.var_name_temp = NoName THEN "missing_temp_var_name"
    ELSE IF a.var_name_temp \notin DOMAIN d.variables THEN "invalid_temp_var"
    ELSE IF d.variables[a.var_name_temp] # expected_dimensions THEN "invalid_temp_dims"
    ELSE IF ~array_equal(r.lat, d.lat) THEN "temp_lat_mismatch"
    ELSE IF ~array_equal(r.lon, d.lon) THEN "temp_lon_mismatch"
    ELSE IF ~array_equal(r.time, d.time) THEN "temp_time_mismatch"
    ELSE "none"

\* lines 176-182: "skip" when the index needs no AWC file
AwcDispatch(a) ==
    IF a.index \notin {"palmers"} THEN "skip"
    ELSE IF a.netcdf_awc = None THEN "missing_awc_file"
    ELSE "awc"

\* AwcFileError comparing the time coordinate too, as the blocks of the
\* temperature and PET files do
AwcFileError_ComparesTime(a, d, r) ==
    IF a.var_name_awc = NoName THEN "missing_awc_var_name"
    ELSE IF a.var_name_awc \notin DOMAIN d.variables THEN "invalid_awc_var"
    ELSE IF d.variables[a.var_name_awc] # <<"lat", "lon">>
            /\ d.variables[a.var_name_awc] # expected_dimensions
         THEN "invalid_awc_dims"
    ELSE IF Len(r.lat) # Len(d.lat) \/ r.lat # d.lat THEN "awc_lat_mismatch"
    ELSE IF Len(r.lon) # Len(d.lon) \/ r.lon # d.lon THEN "awc_lon_mismatch"
    ELSE IF Len(r.time) # Len(d.time) \/ r.time # d.time THEN "awc_time_mismatch"
    ELSE "none"

\* lines 188-214: the AWC file against the precipitation latitudes and longitudes
AwcFileError(a, d, r) ==
    IF a.var_name_awc = NoName THEN "missing_awc_var_name"
    ELSE IF a.var_name_awc \notin DOMAIN d.variables THEN "invalid_awc_var"
    ELSE IF d.variables[a.var_name_awc] # <<"lat", "lon">>
            /\ d.variables[a.var_name_awc] # expected_dimensions
         THEN "invalid_awc_dims"
    ELSE IF ~array_equal(r.lat, d.lat) THEN "awc_lat_mismatch"
    ELSE IF ~array_equal(r.lon, d.lon) THEN "awc_lon_mismatch"
    ELSE "none"

\* lines 216-227: the scales of the scaled indices
ScalesError(a) ==
    IF a.index \in {"spi", "spei", "scaled", "pnp"}
    THEN IF ~a.scales.given THEN "missing_scales"
         ELSE IF \E k \in 1..Len(a.scales.list) : a.scales.list[k] < 0
              THEN "negative_scale"
         ELSE "none"
    ELSE "none"

-----------------------------------------------------------------------------
(* __main__: the pure steps of the pipeline *)

\* Python's `s in t` on two strings
IsSubstring(s, t) ==
    \E k \in 0..(Len(t) - Len(s)) : SubSeq(t, k + 1, k + Len(s)) = s

\* lines 320-323: the data variables kept by the trimming loop, which drops
\* a variable when `var not in arguments.var_name_precip`
TrimDataVars(names, var_name_precip) ==
    {v \in names : IsSubstring(v, var_name_precip)}

Digits == <<"0", "1", "2", "3", "4", "5", "6", "7", "8", "9">>

\* str() of an integer
RECURSIVE Str(_)
Str(n) ==
    IF n < 0 THEN <<"-">> \o Str(0 - n)
    ELSE IF n < 10 THEN <<Digits[n + 1]>>
    ELSE Str(n \div 10) \o <<Digits[(n % 10) + 1]>>

\* str.zfill: zeros on the left up to the width, after a leading sign
RECURSIVE zfill(_, _)
zfill(s, width) ==
    IF Len(s) >= width THEN s
    ELSE IF Len(s) > 0 /\ s[1] = "-" THEN zfill(<<"-", "0">> \o Tail(s), width)
    ELSE zfill(<<"0">> \o s, width)

ZfillWidth == 2

\* line 367: "spi_gamma_" + str(timestep_scale).zfill(2)
LayerName(timestep_scale) ==
    <<"s", "p", "i", "_", "g", "a", "m", "m", "a", "_">>
        \o zfill(Str(timestep_scale), ZfillWidth)

\* the precipitation values of a file.  The value stored at (lat, lon, time) is
\* written as that triple of coordinates, so that every value of the grid is
\* distinct and tells where it came from.
PrecipGrid(d) ==
    [p \in {<<d.lat[y], d.lon[x]>> : y \in 1..Len(d.lat), x \in 1..Len(d.lon)} |->
        [k \in 1..Len(d.time) |-> <<p[1], p[2], d.time[k]>>]]

\* line 333: da_precip.stack(point=('lat', 'lon')): one entry per (lat, lon)
\* pair, the longitude varying fastest, each with its time series
Stack(grid, lat, lon) ==
    [n \in 1..(Len(lat) * Len(lon)) |->
        LET y == ((n - 1) \div Len(lon)) + 1
            x == ((n - 1) % Len(lon)) + 1
        IN  [point |-> <<lat[y], lon[x]>>, series |-> grid[<<lat[y], lon[x]>>]]]

\* lines 230-243: indices.spi on one time series.  The index function is
\* outside the script: its value is kept as the application itself.
spi_gamma(data_array, scale, periodicity) ==
    [fn |-> "spi_gamma", scale |-> scale, periodicity |-> periodicity,
     series |-> data_array]

\* Unstack reading the point as (lon, lat)
Unstack_Transposed(res, lat, lon) ==
    [p \in {<<lat[y], lon[x]>> : y \in 1..Len(lat), x \in 1..Len(lon)} |->
        IF \E n \in 1..Len(res) : res[n].point = <<p[2], p[1]>>
        THEN res[CHOOSE n \in 1..Len(res) : res[n].point = <<p[2], p[1]>>].value
        ELSE [fn |-> "nan", scale |-> 0, periodicity |-> "", series |-> << >>]]

\* line 357: da_spi.unstack('point'): every (lat, lon) gets the value computed
\* for the point with these coordinates ("nan" when there is none)
Unstack(res, lat, lon) ==
    [p \in {<<lat[y], lon[x]>> : y \in 1..Len(lat), x \in 1..Len(lon)} |->
        IF \E n \in 1..Len(res) : res[n].point = p
        THEN res[CHOOSE n \in 1..Len(res) : res[n].point = p].value
        ELSE [fn |-> "nan", scale |-> 0, periodicity |-> "", series |-> << >>]]

\* lines 337-340
ScaleIncrement(periodicity) ==
    IF periodicity = "daily" THEN "day" ELSE "month"

InputVar == [kind |-> "input", scale |-> 0, increment |-> "", grid |-> << >>]

\* line 367: dataset[name] = value
Assign(data_vars, name, value) ==
    [n \in DOMAIN data_vars \cup {name} |-> IF n = name THEN value ELSE data_vars[n]]

\* line 370: dataset.drop(name)
Drop(data_vars, name) ==
    [n \in DOMAIN data_vars \ {name} |-> data_vars[n]]

-----------------------------------------------------------------------------
(* The run *)

Init ==
    /\ args \in ArgSets
    /\ pc = "start"
    /\ err = "none"
    /\ exit = "running"
    /\ open = {}
    /\ opened = << >>
    /\ ds = NoDataset
    /\ precip = NoDataset
    /\ ref = NoRef
    /\ checked = {}
    /\ dataset = [bound |-> FALSE, data_vars |-> << >>]
    /\ da_precip = << >>
    /\ si = 0
    /\ cj = 0
    /\ results = << >>
    /\ applied = << >>
    /\ written = 0
    /\ output = {}

\* an exception: it leaves every `with` block (closing its handle), reaches the
\* except clause of __main__ (lines 381-383) and is raised again
Raise(e) ==
    /\ pc' = "failed"
    /\ err' = e
    /\ exit' = "error"

Tagged(d, role) ==
    [role |-> role, variables |-> d.variables,
     lat |-> d.lat, lon |-> d.lon, time |-> d.time]

\* the datasets a file of a role may hold; the file is not read when its
\* variable name is missing
AuxChoices(role, name, dimsAllowed) ==
    IF name = NoName
    THEN {Dataset(<< >>, DefaultVec, DefaultVec, DefaultVec)}
    ELSE AuxDatasets(role, dimsAllowed)

\* lines 32-44 and 69-82
CheckArgs ==
    /\ pc = "start"
    /\ LET e == IF args.index # "pet" THEN PrecipArgsError(args)
                ELSE PetOnlyError(args)
       IN  IF e # "none" THEN Raise(e)
           ELSE /\ pc' = IF args.index # "pet" THEN "open_precip" ELSE "aux"
                /\ UNCHANGED <<err, exit>>
    /\ UNCHANGED <<args, open, opened, ds, precip, ref, checked, dataset,
                   da_precip, si, cj, results, applied, written, output>>

\* a `with netCDF4.Dataset(path)` statement is entered
OpenFile(at, role, next) ==
    /\ pc = at
    /\ open' = open \cup {role}
    /\ opened' = Append(opened, role)
    /\ pc' = next
    /\ UNCHANGED <<args, err, exit, ds, precip, ref, checked, dataset,
                   da_precip, si, cj, results, applied, written, output>>

\* line 47
OpenPrecip == OpenFile("open_precip", "precip", "check_precip")

\* lines 50-67, and the end of the with block
CheckPrecip ==
    /\ pc = "check_precip"
    /\ \E d \in PrecipDatasets :
          LET e == PrecipFileError(args, d)
          IN  /\ ds' = Tagged(d, "precip")
              /\ precip' = Tagged(d, "precip")
              /\ IF e # "none"
                 THEN Raise(e) /\ UNCHANGED <<ref, checked>>
                 ELSE /\ ref' = [defined |-> TRUE, lat |-> d.lat,
                                 lon |-> d.lon, time |-> d.time]
                      /\ checked' = checked \cup {"precip"}
                      /\ pc' = "aux"
                      /\ UNCHANGED <<err, exit>>
    /\ open' = open \ {"precip"}
    /\ UNCHANGED <<args, opened, dataset, da_precip, si, cj, results,
                   applied, written, output>>

\* lines 85-92 and 130-137
DispatchAux ==
    /\ pc = "aux"
    /\ LET r == AuxDispatch(args)
       IN  IF r \in {"missing_temp_and_pet", "conflicting_temp_and_pet"}
           THEN Raise(r)
           ELSE /\ pc' = CASE r = "skip" -> "scales"
                           [] r = "pet"  -> "open_pet"
                           [] r = "temp" -> "open_temp"
                /\ UNCHANGED <<err, exit>>
    /\ UNCHANGED <<args, open, opened, ds, precip, ref, checked, dataset,
                   da_precip, si, cj, results, applied, written, output>>

\* the checks made on the file of a role
FileError(role, d) ==
    CASE role = "pet"  -> PetFileError(args, d, ref)
      [] role = "temp" -> TempFileError(args, d, ref)
      [] role = "awc"  -> AwcFileError(args, d, ref)

\* the body of a with block that validates an auxiliary file: the checks, and
\* the end of the block
CheckFile(at, role, choices, next) ==
    /\ pc = at
    /\ \E d \in choices :
          /\ ds' = Tagged(d, role)
          /\ IF FileError(role, d) # "none"
             THEN Raise(FileError(role, d)) /\ UNCHANGED checked
             ELSE /\ checked' = checked \cup {role}
                  /\ pc' = next
                  /\ UNCHANGED <<err, exit>>
    /\ open' = open \ {role}
    /\ UNCHANGED <<args, opened, precip, ref, dataset, da_precip, si, cj,
                   results, applied, written, output>>

\* line 95
OpenPet == OpenFile("open_pet", "pet", "check_pet")

\* lines 98-128
CheckPet ==
    CheckFile("check_pet", "pet",
              AuxChoices("pet", args.var_name_pet, {expected_dimensions}), "awc")

\* line 140
OpenTemp == OpenFile("open_temp", "temp", "check_temp")

\* lines 143-173
CheckTemp ==
    CheckFile("check_temp", "temp",
              AuxChoices("temp", args.var_name_temp, {expected_dimensions}), "awc")

\* lines 176-182
DispatchAwc ==
    /\ pc = "awc"
    /\ LET r == AwcDispatch(args)
       IN  IF r = "missing_awc_file" THEN Raise(r)
           ELSE /\ pc' = IF r = "skip" THEN "scales" ELSE "open_awc"
                /\ UNCHANGED <<err, exit>>
    /\ UNCHANGED <<args, open, opened, ds, precip, ref, checked, dataset,
                   da_precip, si, cj, results, applied, written, output>>

\* line 185
OpenAwc == OpenFile("open_awc", "awc", "check_awc")

\* lines 188-214
CheckAwc ==
    CheckFile("check_awc", "awc",
              AuxChoices("awc", args.var_name_awc,
                         {<<"lat", "lon">>, expected_dimensions}), "scales")

\* lines 216-227; _validate_args returns
CheckScales ==
    /\ pc = "scales"
    /\ LET e == ScalesError(args)
       IN  IF e # "none" THEN Raise(e)
           ELSE pc' = "validated" /\ UNCHANGED <<err, exit>>
    /\ UNCHANGED <<args, open, opened, ds, precip, ref, checked, dataset,
                   da_precip, si, cj, results, applied, written, output>>

\* lines 315-333: the indices computed by the script open the precipitation
\* file with xarray, trim its data variables and stack the grid; the other
\* indices go on to line 370
SelectIndex ==
    /\ pc = "validated"
    /\ IF args.index \in {"spi", "scaled"}
       THEN /\ open' = open \cup {"xr_precip"}
            /\ opened' = Append(opened, "precip")
            /\ dataset' =
                  [bound |-> TRUE,
                   data_vars |->
                      [n \in TrimDataVars(DOMAIN precip.variables,
                                          args.var_name_precip) |->
                          IF n = args.var_name_precip
                          THEN [InputVar EXCEPT !.grid = PrecipGrid(precip)]
                          ELSE InputVar]]
            /\ da_precip' = Stack(PrecipGrid(precip), precip.lat, precip.lon)
            /\ si' = 1
            /\ pc' = "scale"
       ELSE /\ pc' = "drop"
            /\ UNCHANGED <<open, opened, dataset, da_precip, si>>
    /\ UNCHANGED <<args, err, exit, ds, precip, ref, checked, cj, results,
                   applied, written, output>>

\* lines 335-346: the next scale of the loop, or the end of the loop
BeginScale ==
    /\ pc = "scale"
    /\ IF si > Len(args.scales.list)
       THEN pc' = "drop" /\ UNCHANGED <<cj, results, applied, err, exit>>
       ELSE IF args.periodicity \notin {"daily", "monthly"}
            THEN Raise("invalid_periodicity") /\ UNCHANGED <<cj, results, applied>>
            ELSE /\ cj' = 1
                 /\ results' = << >>
                 /\ applied' = Append(applied, << >>)
                 /\ pc' = "compute"
                 /\ UNCHANGED <<err, exit>>
    /\ UNCHANGED <<args, open, opened, ds, precip, ref, checked, dataset,
                   da_precip, si, written, output>>

\* lines 349-354, one group of groupby('point').apply: spi_gamma returns
ComputeCell ==
    /\ pc = "compute"
    /\ cj <= Len(da_precip)
    /\ results' = Append(results,
                         [point |-> da_precip[cj].point,
                          value |-> spi_gamma(da_precip[cj].series,
                                              args.scales.list[si],
                                              args.periodicity)])
    /\ applied' = [applied EXCEPT ![si] = Append(@, da_precip[cj].point)]
    /\ cj' = cj + 1
    /\ UNCHANGED <<args, pc, err, exit, open, opened, ds, precip, ref, checked,
                   dataset, da_precip, si, written, output>>

\* ComputeCellFails with the exception swallowed: the point is skipped and
\* the loop goes on
ComputeCellFails_SkipsCell ==
    /\ pc = "compute"
    /\ cj <= Len(da_precip)
    /\ cj' = cj + 1
    /\ UNCHANGED <<args, pc, err, exit, open, opened, ds, precip, ref, checked,
                   dataset, da_precip, si, results, applied, written, output>>

\* lines 349-354, one group of groupby('point').apply: spi_gamma raises
ComputeCellFails ==
    /\ pc = "compute"
    /\ cj <= Len(da_precip)
    /\ applied' = [applied EXCEPT ![si] = Append(@, da_precip[cj].point)]
    /\ Raise("computation")
    /\ UNCHANGED <<args, open, opened, ds, precip, ref, checked, dataset,
                   da_precip, si, cj, results, written, output>>

\* lines 356-367: unstack, and assign the layer into the dataset
Recompose ==
    /\ pc = "compute"
    /\ cj > Len(da_precip)
    /\ dataset' =
          [dataset EXCEPT !.data_vars =
              Assign(@, LayerName(args.scales.list[si]),
                     [kind |-> "spi", scale |-> args.scales.list[si],
                      increment |-> ScaleIncrement(args.periodicity),
                      grid |-> Unstack(results, precip.lat, precip.lon)])]
    /\ si' = si + 1
    /\ pc' = "scale"
    /\ UNCHANGED <<args, err, exit, open, opened, ds, precip, ref, checked,
                   da_precip, cj, results, applied, written, output>>

\* line 370: `dataset` is bound only by line 318
DropPrecip ==
    /\ pc = "drop"
    /\ IF ~dataset.bound
       THEN Raise("NameError") /\ UNCHANGED dataset
       ELSE /\ dataset' = [dataset EXCEPT
                              !.data_vars = Drop(@, args.var_name_precip)]
            /\ pc' = "write"
            /\ UNCHANGED <<err, exit>>
    /\ UNCHANGED <<args, open, opened, ds, precip, ref, checked, da_precip,
                   si, cj, results, applied, written, output>>

\* lines 372-379: to_netcdf, and the normal end of the run
WriteOutput ==
    /\ pc = "write"
    /\ written' = written + 1
    /\ output' = DOMAIN dataset.data_vars
    /\ pc' = "done"
    /\ exit' = "ok"
    /\ UNCHANGED <<args, err, open, opened, ds, precip, ref, checked, dataset,
                   da_precip, si, cj, results, applied>>

Next ==
    \/ CheckArgs
    \/ OpenPrecip
    \/ CheckPrecip
    \/ DispatchAux
    \/ OpenPet
    \/ CheckPet
    \/ OpenTemp
    \/ CheckTemp
    \/ DispatchAwc
    \/ OpenAwc
    \/ CheckAwc
    \/ CheckScales
    \/ SelectIndex
    \/ BeginScale
    \/ ComputeCell
    \/ ComputeCellFails
    \/ Recompose
    \/ DropPrecip
    \/ WriteOutput

Spec == Init /\ [][Next]_vars

-----------------------------------------------------------------------------
(* Properties of _validate_args *)

PetDaily == args.index = "pet" /\ args.periodicity = "daily"

\* C1, as stated: every pet request with daily periodicity fails with the
\* unsupported-periodicity error, whatever the other arguments are.
C1_DailyPetAlwaysUnsupported ==
    (PetDaily /\ pc # "start") =>
        (pc = "failed" /\ err = "unsupported_periodicity")

\* C1, amended: a pet request with daily periodicity never passes validation; it
\* fails with the unsupported-periodicity error when a temperature file is
\* given, and with the missing-temperature-file error when none is given.
C1_DailyPetRejected ==
    (PetDaily /\ pc # "start") =>
        /\ pc = "failed"
        /\ err = IF args.netcdf_temp = None THEN "missing_temp_file"
                 ELSE "unsupported_periodicity"

C1_Witness ==
    /\ PetDaily
    /\ args.netcdf_temp # None
    /\ pc = "failed"
    /\ err = "unsupported_periodicity"

\* the precipitation file passed its checks and the temperature / PET
\* dispatch has been made
PastAuxDispatch == "precip" \in checked /\ pc # "aux"

\* C2: for spei and palmers with valid precipitation inputs, both a temperature
\* and a PET file fail with the conflicting-inputs error, neither fails with the
\* missing-required-input error, and in both cases no file other than the
\* precipitation file has been opened.
C2_ExactlyOneOfTempAndPet ==
    (args.index \in {"spei", "palmers"} /\ PastAuxDispatch) =>
        /\ (args.netcdf_temp # None /\ args.netcdf_pet # None) =>
              (pc = "failed" /\ err = "conflicting_temp_and_pet"
               /\ opened = <<"precip">> /\ open = {})
        /\ (args.netcdf_temp = None /\ args.netcdf_pet = None) =>
              (pc = "failed" /\ err = "missing_temp_and_pet"
               /\ opened = <<"precip">> /\ open = {})

C2_Witness ==
    /\ args.index = "palmers"
    /\ args.netcdf_temp # None /\ args.netcdf_pet # None
    /\ "precip" \in checked
    /\ err = "conflicting_temp_and_pet"

PastScalesCheck ==
    pc = "validated" \/ (pc = "failed" /\ err \in {"missing_scales", "negative_scale"})

\* C3: for a scaled index whose files are valid, an absent and an empty list of
\* scales both fail with the missing-scales error, a list with a negative value
\* fails with the negative-scale error, and only a non-empty list of
\* non-negative values is accepted.
C3_ScalesPresentNonEmptyNonNegative ==
    (args.index \in {"spi", "spei", "scaled", "pnp"} /\ PastScalesCheck) =>
        IF ~args.scales.given \/ args.scales.list = << >>
        THEN pc = "failed" /\ err = "missing_scales"
        ELSE IF \E k \in 1..Len(args.scales.list) : args.scales.list[k] < 0
             THEN pc = "failed" /\ err = "negative_scale"
             ELSE pc = "validated"

C3_Witness ==
    /\ args.index = "spi"
    /\ args.scales.given /\ args.scales.list = << >>
    /\ pc = "validated"

RoleErrors(role) ==
    {role \o "_lat_mismatch", role \o "_lon_mismatch", role \o "_time_mismatch"}

\* the dataset read last is the temperature or PET file and its variable passed
\* the name and dimension checks, so that its coordinates were compared
CoordinatesCompared ==
    /\ ds.role \in {"temp", "pet"}
    /\ err \notin {"missing_" \o ds.role \o "_var_name",
                   "invalid_" \o ds.role \o "_var", "invalid_" \o ds.role \o "_dims"}

FirstDifferingAxis(r, d) ==
    IF r.lat # d.lat THEN "lat"
    ELSE IF r.lon # d.lon THEN "lon"
    ELSE IF r.time # d.time THEN "time"
    ELSE "none"

\* C4: the comparison of a temperature or PET dataset with the precipitation
\* reference succeeds exactly when the lat, lon and time vectors are equal in
\* length and in every element; otherwise it fails and names the first axis,
\* in the order lat, lon, time, whose vectors differ.
C4_CoordinatesMatchIffEqual ==
    CoordinatesCompared =>
        LET axis == FirstDifferingAxis(ref, ds)
        IN  IF axis = "none"
            THEN ds.role \in checked /\ err \notin RoleErrors(ds.role)
            ELSE /\ pc = "failed"
                 /\ err = ds.role \o "_" \o axis \o "_mismatch"
                 /\ ds.role \notin checked

\* the latitudes agree, the longitudes and the times both differ, and the
\* longitudes are named
C4_Witness ==
    /\ ds.role = "temp"
    /\ ds.lat = ref.lat /\ ds.lon # ref.lon /\ ds.time # ref.time
    /\ Len(ds.lon) = Len(ref.lon)
    /\ err = "temp_lon_mismatch"

\* the input variables an index requires: precipitation for every index except
\* pet, temperature for pet, and the supplied one of temperature and PET for
\* spei and palmers
RequiredRoles(a) ==
    (IF a.index # "pet" THEN {"precip"} ELSE {"temp"})
    \cup (IF a.index \in {"spei", "palmers"}
          THEN {role \in {"temp", "pet"} :
                   (role = "temp" /\ a.netcdf_temp # None)
                   \/ (role = "pet" /\ a.netcdf_pet # None)}
          ELSE {})

\* C5: when _validate_args returns without error, every input variable the
\* index requires has been checked to exist in its file with dimensions exactly
\* (lat, lon, time); no index, pet included, passes validation otherwise.
C5_RequiredVariablesChecked ==
    pc = "validated" =>
        /\ RequiredRoles(args) \subseteq checked
        /\ "precip" \in checked =>
              /\ args.var_name_precip \in DOMAIN precip.variables
              /\ precip.variables[args.var_name_precip] = <<"lat", "lon", "time">>
        /\ ds.role \in {"temp", "pet"} =>
              /\ VarNameOf(ds.role) \in DOMAIN ds.variables
              /\ ds.variables[VarNameOf(ds.role)] = <<"lat", "lon", "time">>

\* palmers, with the precipitation file and the temperature or PET file
\* accepted, and the AWC dispatch made
PalmersPastAwcDispatch ==
    /\ args.index = "palmers"
    /\ "precip" \in checked
    /\ "temp" \in checked \/ "pet" \in checked
    /\ pc # "awc"

AwcVariableRead ==
    /\ ds.role = "awc"
    /\ args.var_name_awc # NoName
    /\ args.var_name_awc \in DOMAIN ds.variables

\* C6: for palmers with valid precipitation and temperature-or-PET inputs, a
\* missing AWC file fails; an AWC variable with dimensions (lat, lon) or
\* (lat, lon, time) is accepted and any other tuple is rejected; a latitude
\* difference fails with the latitude error and a longitude difference with the
\* longitude error; and the time coordinate of the AWC file is never compared.
C6_AwcLatLonOnly ==
    PalmersPastAwcDispatch =>
        /\ args.netcdf_awc = None => (pc = "failed" /\ err = "missing_awc_file")
        /\ AwcVariableRead =>
              LET dims == ds.variables[args.var_name_awc]
              IN  IF dims \notin {<<"lat", "lon">>, <<"lat", "lon", "time">>}
                  THEN pc = "failed" /\ err = "invalid_awc_dims"
                  ELSE IF ds.lat # ref.lat
                       THEN pc = "failed" /\ err = "awc_lat_mismatch"
                  ELSE IF ds.lon # ref.lon
                       THEN pc = "failed" /\ err = "awc_lon_mismatch"
                  ELSE "awc" \in checked
                       /\ err \notin {"missing_awc_file", "missing_awc_var_name",
                                      "invalid_awc_var", "invalid_awc_dims",
                                      "awc_lat_mismatch", "awc_lon_mismatch",
                                      "awc_time_mismatch"}

\* an AWC variable over (lat, lon, time) whose times differ from the
\* precipitation times passes validation
C6_Witness ==
    /\ args.index = "palmers"
    /\ pc = "validated"
    /\ ds.role = "awc"
    /\ ds.variables[args.var_name_awc] = <<"lat", "lon", "time">>
    /\ ds.time # ref.time

-----------------------------------------------------------------------------
(* Properties of the pipeline *)

\* the time series of the precipitation file at latitude y and longitude x
OriginalSeries(y, x) ==
    [t \in 1..Len(precip.time) |->
        <<precip.lat[y], precip.lon[x], precip.time[t]>>]

GridKeys ==
    {<<precip.lat[y], precip.lon[x]>> :
        y \in 1..Len(precip.lat), x \in 1..Len(precip.lon)}

C8_OutputIsExactlyTheLayers ==
    (args.index = "spi" /\ pc = "done" /\ args.scales.list # << >>) =>
        /\ output = {LayerName(args.scales.list[k]) : k \in 1..Len(args.scales.list)}
        /\ Cardinality(output) =
              Cardinality({args.scales.list[k] : k \in 1..Len(args.scales.list)})
        /\ output \cap DOMAIN precip.variables = {}

AllPoints == [n \in 1..Len(da_precip) |-> da_precip[n].point]

\* C9: the output file is written at most once, and only after validation and
\* the computation of every cell for every scale have succeeded; a run that
\* fails writes nothing and ends with the error raised; within a scale the
\* cells are computed in order, none skipped and none repeated.
C9_WriteOnlyAfterFullSuccess ==
    /\ written <= 1
    /\ written = 1 =>
          /\ pc = "done" /\ err = "none" /\ exit = "ok"
          /\ "precip" \in checked
          /\ args.scales.given
          /\ Len(applied) = Len(args.scales.list)
          /\ \A k \in 1..Len(applied) :
                /\ applied[k] = AllPoints
                /\ LayerName(args.scales.list[k]) \in output
                /\ \A p \in GridKeys :
                      dataset.data_vars[LayerName(args.scales.list[k])].grid[p].fn
                         = "spi_gamma"
    /\ pc = "failed" => (written = 0 /\ output = {} /\ exit = "error" /\ err # "none")
    /\ exit = "error" => pc = "failed"
    /\ \A k \in 1..Len(applied) :
          /\ Len(applied[k]) <= Len(da_precip)
          /\ applied[k] = SubSeq(AllPoints, 1, Len(applied[k]))
          /\ k < Len(applied) => applied[k] = AllPoints

\* the index function fails in the second scale, after the layer of the first
\* scale was assigned, and nothing is written
C9_Witness ==
    /\ pc = "failed"
    /\ err = "computation"
    /\ si = 2
    /\ Len(applied[2]) > 1
    /\ written = 0

ValidationErrors ==
    {"missing_precip_file", "missing_precip_var_name", "invalid_precip_var",
     "invalid_precip_dims", "missing_temp_file", "unsupported_periodicity",
     "missing_temp_and_pet", "conflicting_temp_and_pet",
     "missing_pet_var_name", "invalid_pet_var", "invalid_pet_dims",
     "pet_lat_mismatch", "pet_lon_mismatch", "pet_time_mismatch",
     "missing_temp_var_name", "invalid_temp_var", "invalid_temp_dims",
     "temp_lat_mismatch", "temp_lon_mismatch", "temp_time_mismatch",
     "missing_awc_file", "missing_awc_var_name", "invalid_awc_var",
     "invalid_awc_dims", "awc_lat_mismatch", "awc_lon_mismatch",
     "missing_scales", "negative_scale"}

\* C10: for every index, a request that passed validation and whose per-cell
\* computations all succeed goes on to the write step; no run ends in an error
\* that is neither a validation failure nor a per-cell computation failure.
C10_ValidatedRequestReachesWrite ==
    pc = "failed" => err \in ValidationErrors \cup {"computation"}

-----------------------------------------------------------------------------
(* Properties of the dataset handles *)

\* _validate_args is running
InValidation ==
    pc \in {"start", "open_precip", "check_precip", "aux", "open_pet",
            "check_pet", "open_temp", "check_temp", "awc", "open_awc",
            "check_awc", "scales"}

\* _validate_args has returned, or has raised
ValidationEnded ==
    pc = "validated" \/ (pc = "failed" /\ err \in ValidationErrors)

\* the handles of the with-blocks of _validate_args: at most one is open at any
\* moment, and none when it returns or raises
ValidationHandlesScoped ==
    /\ InValidation => Cardinality(open) <= 1
    /\ ValidationEnded => open = {}

\* C11: every dataset handle is released when the work on its file is done,
\* normally or by an error: during _validate_args at most one handle is open
\* and none is open when it returns or raises, and the precipitation dataset
\* opened for the decomposition is released when the run finishes or aborts.
C11_HandlesReleased ==
    /\ ValidationHandlesScoped
    /\ pc \in {"done", "failed"} => open = {}

====
